---- MODULE Spec2Model ----
(***************************************************************************)
(* Verification model of embedding/word_extraction.py:                     *)
(*   generate_filemap, generate_wordtimings, extract_one_second and        *)
(*   extract_shot_from_mp3.                                                *)
(*                                                                         *)
(* Times are Python floats.  They are modelled by a binary floating-point  *)
(* format of the IEEE 754 kind with Precision significand bits, gradual    *)
(* underflow and round-half-to-even: a time is an integer count of units   *)
(* of 2^-ScaleBits second (the smallest subnormal), one second is Second   *)
(* units, and every arithmetic operation of the code rounds its exact      *)
(* result to the nearest representable value, as binary64 does with 53     *)
(* bits.                                                                   *)
(***************************************************************************)
EXTENDS Integers, Sequences, FiniteSets, TLC

\* ------------------------------------------------------------------------
\* Bounds of the model
\* ------------------------------------------------------------------------
Precision == 3
ScaleBits == 4
MaxSeconds == 3

\* ------------------------------------------------------------------------
\* Floating-point arithmetic
\* ------------------------------------------------------------------------
RECURSIVE Pow2(_)
Pow2(n) == IF n = 0 THEN 1 ELSE 2 * Pow2(n - 1)

Second == Pow2(ScaleBits)
Half == Second \div 2
MaxTime == MaxSeconds * Second

\* the value of a variable that holds no tuple yet
None == <<>>

Abs(x) == IF x < 0 THEN -x ELSE x
Min(a, b) == IF a <= b THEN a ELSE b
Max(a, b) == IF a >= b THEN a ELSE b

\* distance between neighbouring floats at magnitude a (the unit in the
\* last place): 1 unit in the subnormal range, doubling per binade
RECURSIVE SpacingFrom(_, _)
SpacingFrom(a, s) ==
    IF a < Pow2(Precision) * s THEN s ELSE SpacingFrom(a, 2 * s)

Ulp(x) == SpacingFrom(Abs(x), 1)

IsFloat(x) == Abs(x) % Ulp(x) = 0

\* the float nearest to the rational num/den, ties to the even significand
RoundRat(num, den) ==
    LET a  == Abs(num)
        q  == a \div den
        s  == SpacingFrom(q, 1)
        lo == (q \div s) * s
        hi == lo + s
        dl == a - lo * den
        dh == hi * den - a
        r  == IF dl < dh THEN lo
              ELSE IF dl > dh THEN hi
              ELSE IF (lo \div s) % 2 = 0 THEN lo ELSE hi
    IN  IF num < 0 THEN -r ELSE r

FAdd(a, b) == RoundRat(a + b, 1)
FSub(a, b) == RoundRat(a - b, 1)
FHalf(a) == RoundRat(a, 2)

Floats == {x \in 0..MaxTime : IsFloat(x)}

\* ------------------------------------------------------------------------
\* State
\* ------------------------------------------------------------------------
VARIABLES
    duration_s,     \* extract_one_second: argument
    start_s,        \* extract_one_second: argument
    end_s,          \* extract_one_second: argument
    window,         \* extract_one_second: returned pair, None before the call
    params,         \* extract_shot_from_mp3: trim bounds and padding handed
                    \* to the transformer, None before they are computed
    tree,           \* generate_filemap: the files under the alignments
                    \* directory, each a pair <<directory, file name>>
    todo,           \* generate_filemap: directories os.walk has yet to yield
    root,           \* generate_filemap: directory being visited
    files,          \* generate_filemap: its file names not yet visited
    filemap,        \* generate_filemap: the mapping under construction
    fm_result,      \* generate_filemap: "walking", "returned", "ValueError"
    words_to_search_for,  \* generate_wordtimings: argument
    mp3_to_textgrid,      \* generate_wordtimings: argument
    rows,           \* generate_wordtimings: the rows of validated.csv the
                    \* reader has yielded so far, the header first
    timings,        \* generate_wordtimings: word -> sequence of occurrences
    notfound,       \* generate_wordtimings: sequence of (recording, word)
    tm_result,      \* generate_wordtimings: "scanning", "returned", "KeyError"
    clips,          \* extract_shot_from_mp3: recording -> duration of its
                    \* mp3 under cv_clipsdir, NoFile when it has none
    dest_isdir,     \* extract_shot_from_mp3: os.path.isdir(dest_dir)
    wavs,           \* extract_shot_from_mp3: recording -> content of its
                    \* .wav under dest_dir, None when it has none
    last            \* extract_shot_from_mp3: recording, outcome and whether
                    \* transformer.build ran, of the latest call

window_vars == <<duration_s, start_s, end_s, window, params>>
filemap_vars == <<tree, todo, root, files, filemap, fm_result>>
timing_vars ==
    <<words_to_search_for, mp3_to_textgrid, rows, timings, notfound, tm_result>>
clip_vars == <<clips, dest_isdir, wavs, last>>
vars == <<window_vars, filemap_vars, timing_vars, clip_vars>>

WindowIdle ==
    /\ duration_s = 0
    /\ start_s = 0
    /\ end_s = 0
    /\ window = None
    /\ params = None

FilemapIdle ==
    /\ tree = {}
    /\ todo = <<>>
    /\ root = None
    /\ files = {}
    /\ filemap = <<>>
    /\ fm_result = "idle"

TimingIdle ==
    /\ words_to_search_for = {}
    /\ mp3_to_textgrid = <<>>
    /\ rows = <<>>
    /\ timings = <<>>
    /\ notfound = <<>>
    /\ tm_result = "idle"

ClipIdle ==
    /\ clips = <<>>
    /\ dest_isdir = FALSE
    /\ wavs = <<>>
    /\ last = None

\* ------------------------------------------------------------------------
\* File names and os.path.splitext
\* ------------------------------------------------------------------------
\* a name is the sequence of its characters
Dot == "."

\* index of the last dot of the name, 0 when it has none
LastDot(name) ==
    LET dots == {i \in 1..Len(name) : name[i] = Dot}
    IN  IF dots = {} THEN 0
        ELSE CHOOSE i \in dots : \A j \in dots : j <= i

\* os.path.splitext(name)[0]: the name up to its last dot, unless only dots
\* come before that dot
splitext(name) ==
    LET d == LastDot(name)
    IN  IF d > 0 /\ \E j \in 1..(d - 1) : name[j] /= Dot
        THEN SubSeq(name, 1, d - 1)
        ELSE name

\* ------------------------------------------------------------------------
\* generate_filemap
\* ------------------------------------------------------------------------
MaxFiles == 3

TopDir == "alignments"
SubDir == "alignments/sub"
Dirs == {TopDir, SubDir}

FileNames ==
    { <<"a">>, <<"b">>,
      <<"a", ".", "t">>, <<"a", ".", "u">>, <<"b", ".", "t">>,
      <<"a", ".">>, <<".", "t">>, <<"a", ".", "b", ".", "t">> }

AllFiles == Dirs \X FileNames

\* the empty mapping
EmptyMap == <<>>

FilesIn(tr, dir) == {f[2] : f \in {g \in tr : g[1] = dir}}

\* os.path.join(root, textgrid)
JoinPath(dir, name) == <<dir, name>>

FilemapInit ==
    /\ tree \in {tr \in SUBSET AllFiles : Cardinality(tr) <= MaxFiles}
    /\ todo = <<TopDir, SubDir>>
    /\ root = None
    /\ files = {}
    /\ filemap = EmptyMap
    /\ fm_result = "walking"
    /\ WindowIdle /\ TimingIdle /\ ClipIdle

\* os.walk yields the next directory; one without files is skipped by the
\* "continue" and leaves nothing to visit
WalkNext ==
    /\ fm_result = "walking"
    /\ files = {}
    /\ todo /= <<>>
    /\ root' = <<Head(todo)>>
    /\ files' = FilesIn(tree, Head(todo))
    /\ todo' = Tail(todo)
    /\ UNCHANGED <<tree, filemap, fm_result>>
    /\ UNCHANGED <<window_vars, timing_vars, clip_vars>>

\* mutant: a base name already in the mapping is overwritten
AlreadyPresent_Never(mp3name, fm) == FALSE

\* the test "mp3name in filemap"
AlreadyPresent(mp3name, fm) == mp3name \in DOMAIN fm

\* one iteration of "for textgrid in files"
VisitFile(textgrid) ==
    /\ fm_result = "walking"
    /\ textgrid \in files
    /\ LET mp3name == splitext(textgrid)
       IN  IF AlreadyPresent(mp3name, filemap)
           THEN /\ fm_result' = "ValueError"
                /\ UNCHANGED <<files, filemap>>
           ELSE /\ filemap' = (mp3name :> JoinPath(root[1], textgrid)) @@ filemap
                /\ files' = files \ {textgrid}
                /\ fm_result' = fm_result
    /\ UNCHANGED <<tree, todo, root>>
    /\ UNCHANGED <<window_vars, timing_vars, clip_vars>>

ReturnFilemap ==
    /\ fm_result = "walking"
    /\ files = {}
    /\ todo = <<>>
    /\ fm_result' = "returned"
    /\ UNCHANGED <<tree, todo, root, files, filemap>>
    /\ UNCHANGED <<window_vars, timing_vars, clip_vars>>

FilemapNext ==
    \/ WalkNext
    \/ \E textgrid \in FileNames : VisitFile(textgrid)
    \/ ReturnFilemap

SpecFilemap == FilemapInit /\ [][FilemapNext]_vars

\* ------------------------------------------------------------------------
\* extract_one_second
\* ------------------------------------------------------------------------
\* mutant: the half-length of the occurrence is not halved
center_NotHalved(start, end) == FAdd(start, FSub(end, start))

center(start, end) == FAdd(start, FHalf(FSub(end, start)))

TentativeStart(start, end) == FSub(center(start, end), Half)
TentativeEnd(start, end) == FAdd(center(start, end), Half)

\* the test of the first "if" after the early return
ShiftFires(duration, start, end) ==
    duration >= Second /\ TentativeEnd(start, end) > duration

\* mutant: the end is moved to duration_s and the start is left in place
ShiftedStart_LeftInPlace(duration, start, end) == TentativeStart(start, end)

\* mutant: the start is moved to start_s - 1.0 in place of duration_s - 1.0
ShiftedStart_FromStart(duration, start, end) ==
    IF ShiftFires(duration, start, end)
    THEN FSub(start, Second) ELSE TentativeStart(start, end)

ShiftedStart(duration, start, end) ==
    IF ShiftFires(duration, start, end)
    THEN FSub(duration, Second) ELSE TentativeStart(start, end)

ShiftedEnd(duration, start, end) ==
    IF ShiftFires(duration, start, end)
    THEN duration ELSE TentativeEnd(start, end)

\* mutant: a negative start is never clamped
ClampFires_Never(duration, start, end) == FALSE

\* the test of the second "if", on the start the first one left
ClampFires(duration, start, end) ==
    duration >= Second /\ ShiftedStart(duration, start, end) < 0

extract_one_second(duration, start, end) ==
    IF duration < Second THEN <<0, duration>>
    ELSE IF ClampFires(duration, start, end)
         THEN <<0, Min(duration, FAdd(0, Second))>>
         ELSE <<ShiftedStart(duration, start, end),
                ShiftedEnd(duration, start, end)>>

\* mutant: the missing time is padded whole on each side
ClipParams_PadNotHalved(duration, start, end) ==
    IF FSub(end, start) < Second
    THEN <<start, end, FSub(Second, FSub(end, start))>>
    ELSE LET w == extract_one_second(duration, start, end)
         IN  <<w[1], w[2], 0>>

\* extract_shot_from_mp3, the parameters of the transform: an occurrence
\* shorter than one second is padded, any other is trimmed
ClipParams(duration, start, end) ==
    IF FSub(end, start) < Second
    THEN <<start, end, FHalf(FSub(Second, FSub(end, start)))>>
    ELSE LET w == extract_one_second(duration, start, end)
         IN  <<w[1], w[2], 0>>

\* the fields of the parameters: transformer.trim(start_s, end_s) and
\* transformer.pad(pad_amt_s, pad_amt_s)
trim_start(p) == p[1]
trim_end(p) == p[2]
pad_amt_s(p) == p[3]

\* the occurrences the alignment of a recording of this duration can hold
WellFormed(duration, start, end) ==
    0 <= start /\ start <= end /\ end <= duration

WindowInit ==
    /\ duration_s \in Floats
    /\ start_s \in Floats
    /\ end_s \in Floats
    /\ WellFormed(duration_s, start_s, end_s)
    /\ window = None
    /\ params = None
    /\ FilemapIdle /\ TimingIdle /\ ClipIdle

DeriveWindow ==
    /\ window = None
    /\ window' = extract_one_second(duration_s, start_s, end_s)
    /\ UNCHANGED <<duration_s, start_s, end_s, params>>
    /\ UNCHANGED <<filemap_vars, timing_vars, clip_vars>>

ComputeClipParams ==
    /\ params = None
    /\ params' = ClipParams(duration_s, start_s, end_s)
    /\ UNCHANGED <<duration_s, start_s, end_s, window>>
    /\ UNCHANGED <<filemap_vars, timing_vars, clip_vars>>

WindowNext == DeriveWindow \/ ComputeClipParams

SpecWindow == WindowInit /\ [][WindowNext]_vars


\* ------------------------------------------------------------------------
\* generate_wordtimings
\* ------------------------------------------------------------------------
MaxRows == 2

Space == " "

\* str.split(): the maximal runs of characters other than white space
RECURSIVE SplitFrom(_, _, _)
SplitFrom(text, i, word) ==
    IF i > Len(text)
    THEN IF word = <<>> THEN <<>> ELSE <<word>>
    ELSE IF text[i] = Space
         THEN IF word = <<>> THEN SplitFrom(text, i + 1, <<>>)
              ELSE <<word>> \o SplitFrom(text, i + 1, <<>>)
         ELSE SplitFrom(text, i + 1, Append(word, text[i]))

split(text) == SplitFrom(text, 1, <<>>)

WordX == <<"x">>
WordXX == <<"x", "x">>
Words == {WordX, WordXX}

\* the rows validated.csv can hold: file name, file size, transcript
CsvNames == { <<"a", ".", "m">>, <<"b", ".", "m">> }
Transcripts ==
    { <<>>,
      <<"x">>,
      <<"x", " ", "x">>,
      <<" ", "x", "x", " ", " ", "x">>,
      <<"y", " ", "x", "x">> }
CsvRows == CsvNames \X {0} \X Transcripts

\* the recordings the rows name
RecordingKeys == {splitext(n) : n \in CsvNames}

\* the TextGrid of a recording
TextGridPath(mp3name) == JoinPath(SubDir, mp3name \o <<".", "t">>)

\* textgrid.TextGrid.fromFile(tgf)[0]: the intervals of the first tier of
\* the file, each <<mark, minTime, maxTime>>
TextGridFile(tgf) ==
    IF tgf = TextGridPath(<<"a">>)
    THEN << <<<<>>, 0, 2>>, <<WordX, 2, 5>>, <<WordXX, 5, 9>>,
            <<<<>>, 9, 10>>, <<WordX, 10, 12>> >>
    ELSE << <<WordXX, 0, 4>>, <<<<>>, 4, 6>>, <<WordX, 6, 9>> >>

mark(interval) == interval[1]
minTime(interval) == interval[2]
maxTime(interval) == interval[3]

\* the test "word not in words_to_search_for", negated
IsTarget(word) == word \in words_to_search_for

\* whether mp3_to_textgrid[mp3name] raises no KeyError
Indexed(mp3name) == mp3name \in DOMAIN mp3_to_textgrid

\* the test "interval.mark != word", negated
MarkMatches(interval, word) == mark(interval) = word

\* "for interval in tg[0]": the occurrences to append to timings[word]
RECURSIVE IntervalLoop(_, _, _)
IntervalLoop(tier, mp3name, word) ==
    IF tier = <<>> THEN <<>>
    ELSE (IF MarkMatches(Head(tier), word)
          THEN << <<mp3name, minTime(Head(tier)), maxTime(Head(tier))>> >>
          ELSE <<>>)
         \o IntervalLoop(Tail(tier), mp3name, word)

\* mutant: a recording without alignment is passed over in silence
WordStep_MissUnlogged(acc, mp3name, word) ==
    IF ~Indexed(mp3name)
    THEN acc
    ELSE LET tg == TextGridFile(mp3_to_textgrid[mp3name])
         IN  <<[acc[1] EXCEPT ![word] = @ \o IntervalLoop(tg, mp3name, word)],
               acc[2]>>

\* the body of "for word in words" for a word of the set, on the pair
\* <<timings, notfound>>
WordStep(acc, mp3name, word) ==
    IF ~Indexed(mp3name)
    THEN <<acc[1], Append(acc[2], <<mp3name, word>>)>>
    ELSE LET tg == TextGridFile(mp3_to_textgrid[mp3name])
         IN  <<[acc[1] EXCEPT ![word] = @ \o IntervalLoop(tg, mp3name, word)],
               acc[2]>>

\* "for word in words"
RECURSIVE WordLoop(_, _, _)
WordLoop(acc, mp3name, words) ==
    IF words = <<>> THEN acc
    ELSE WordLoop(IF IsTarget(Head(words))
                  THEN WordStep(acc, mp3name, Head(words))
                  ELSE acc,
                  mp3name, Tail(words))

TimingInit ==
    /\ words_to_search_for \in SUBSET Words
    /\ mp3_to_textgrid \in
           {[k \in K |-> TextGridPath(k)] : K \in SUBSET RecordingKeys}
    /\ rows = <<>>
    /\ timings = [w \in words_to_search_for |-> <<>>]
    /\ notfound = <<>>
    /\ tm_result = "scanning"
    /\ WindowIdle /\ FilemapIdle /\ ClipIdle

\* ix = 0: the header row is skipped
ReadHeader(row) ==
    /\ tm_result = "scanning"
    /\ rows = <<>>
    /\ rows' = <<row>>
    /\ UNCHANGED <<words_to_search_for, mp3_to_textgrid, timings, notfound,
                   tm_result>>
    /\ UNCHANGED <<window_vars, filemap_vars, clip_vars>>

\* ix > 0: one iteration of "for ix, row in enumerate(reader)"
ReadRow(row) ==
    /\ tm_result = "scanning"
    /\ rows /= <<>>
    /\ Len(rows) <= MaxRows
    /\ LET mp3name_no_extension == splitext(row[1])
           words == split(row[3])
           acc == WordLoop(<<timings, notfound>>, mp3name_no_extension, words)
       IN  /\ timings' = acc[1]
           /\ notfound' = acc[2]
    /\ rows' = Append(rows, row)
    /\ UNCHANGED <<words_to_search_for, mp3_to_textgrid, tm_result>>
    /\ UNCHANGED <<window_vars, filemap_vars, clip_vars>>

\* the reader is exhausted
ReturnTimings ==
    /\ tm_result = "scanning"
    /\ tm_result' = "returned"
    /\ UNCHANGED <<words_to_search_for, mp3_to_textgrid, rows, timings,
                   notfound>>
    /\ UNCHANGED <<window_vars, filemap_vars, clip_vars>>

TimingNext ==
    \/ \E row \in CsvRows : ReadHeader(row)
    \/ \E row \in CsvRows : ReadRow(row)
    \/ ReturnTimings

SpecTimings == TimingInit /\ [][TimingNext]_vars

\* ------------------------------------------------------------------------
\* extract_shot_from_mp3
\* ------------------------------------------------------------------------
Recordings == {"r1", "r2"}

\* clips[r] of a recording without an mp3 under cv_clipsdir
NoFile == -1

\* a .wav that was under dest_dir before any call, and one that a failed
\* run of the external tool left behind
Old == <<"old">>
Partial == <<"partial">>

\* the .wav that transformer.build writes: the input and the parameters of
\* trim and pad
Clip(mp3name, p) == <<mp3name, trim_start(p), trim_end(p), pad_amt_s(p)>>
IsClip(wav) == Len(wav) = 4

\* the occurrences the calls are made with: multiples of half a second
ClipTimes == {x \in Floats : x % Half = 0}

\* os.path.exists(mp3path)
SourceExists(mp3name) == clips[mp3name] /= NoFile

\* mutant: the destination directory is not looked at
DestIsDir_Unchecked == TRUE

\* os.path.isdir(dest_dir)
DestIsDir == dest_isdir

\* mutant: an existing destination file is not looked at
DestExists_Unchecked(mp3name) == FALSE

\* os.path.exists(dest)
DestExists(mp3name) == wavs[mp3name] /= None

ClipInit ==
    /\ clips \in [Recordings -> {NoFile, Half, MaxTime}]
    /\ clips["r1"] /= Half /\ clips["r2"] /= MaxTime
    /\ dest_isdir \in BOOLEAN
    /\ wavs \in [Recordings -> {None, Old}]
    /\ ~dest_isdir => \A r \in Recordings : wavs[r] = None
    /\ last = None
    /\ WindowIdle /\ FilemapIdle /\ TimingIdle

extract_shot_from_mp3(mp3name_no_ext, start, end) ==
    /\ IF ~SourceExists(mp3name_no_ext)
       THEN /\ last' = <<mp3name_no_ext, "SourceNotFound", FALSE>>
            /\ wavs' = wavs
       ELSE IF ~DestIsDir
       THEN /\ last' = <<mp3name_no_ext, "DestinationMissing", FALSE>>
            /\ wavs' = wavs
       ELSE IF DestExists(mp3name_no_ext)
       THEN /\ last' = <<mp3name_no_ext, "AlreadyExists", FALSE>>
            /\ wavs' = wavs
       ELSE LET duration == clips[mp3name_no_ext]
                p == ClipParams(duration, start, end)
            IN  \/ /\ last' = <<mp3name_no_ext, "Written", TRUE>>
                   /\ wavs' = [wavs EXCEPT ![mp3name_no_ext] =
                                   Clip(mp3name_no_ext, p)]
                \/ /\ last' = <<mp3name_no_ext, "TransformFailure", TRUE>>
                   /\ wavs' \in {wavs, [wavs EXCEPT ![mp3name_no_ext] = Partial]}
    /\ UNCHANGED <<clips, dest_isdir>>
    /\ UNCHANGED <<window_vars, filemap_vars, timing_vars>>

\* an occurrence of the alignment of the recording
Occurrence(mp3name, start, end) ==
    /\ start <= end
    /\ SourceExists(mp3name) => end <= clips[mp3name]

ExtractShot ==
    \E r \in Recordings : \E s \in ClipTimes : \E e \in ClipTimes :
        /\ Occurrence(r, s, e)
        /\ extract_shot_from_mp3(r, s, e)

ClipNext == ExtractShot

SpecClip == ClipInit /\ [][ClipNext]_vars

\* ------------------------------------------------------------------------
\* Claims on extract_one_second and on the transform parameters
\* ------------------------------------------------------------------------
Derived == window /= None
LongRecording == duration_s >= Second

InBounds(w, duration) == 0 <= w[1] /\ w[1] <= w[2] /\ w[2] <= duration

\* C1 as stated: the returned window lies in [0, duration_s]; it is exactly
\* one second wide when duration_s >= 1 and it is (0, duration_s) when
\* duration_s < 1.
C1_ExactWidth ==
    Derived =>
        /\ InBounds(window, duration_s)
        /\ LongRecording => window[2] - window[1] = Second
        /\ ~LongRecording => window = <<0, duration_s>>

\* C1 as amended: the returned window lies in [0, duration_s]; when
\* duration_s >= 1 its width differs from one second by at most one unit in
\* the last place of duration_s, and when duration_s < 1 it is exactly
\* (0, duration_s).
C1_WidthWithinUlp ==
    Derived =>
        /\ InBounds(window, duration_s)
        /\ LongRecording =>
               Abs(window[2] - window[1] - Second) <= Ulp(duration_s)
        /\ ~LongRecording => window = <<0, duration_s>>

\* C1 witness: a one-second window was derived from a long recording after
\* the tentative bounds were rounded, so that it is not exactly one second
C1_Witness ==
    /\ Derived
    /\ LongRecording
    /\ window[2] - window[1] /= Second
    /\ window[1] > 0 /\ window[2] < duration_s

\* C2 as stated: for duration_s >= 1 the returned start is
\* min(max(center_s - 0.5, 0), duration_s - 1.0) and the returned end is that
\* start + 1.0, each evaluated in the arithmetic of the code.
C2_ExactClamp ==
    (Derived /\ LongRecording) =>
        LET c == center(start_s, end_s)
            s == Min(Max(FSub(c, Half), 0), FSub(duration_s, Second))
        IN  /\ window[1] = s
            /\ window[2] = FAdd(s, Second)

\* C2 as amended: for duration_s >= 1 the returned start and end equal
\* min(max(center_s - 0.5, 0), duration_s - 1.0) and that value + 1.0 up to
\* one unit in the last place of duration_s; a tentative window starting
\* below 0 yields exactly (0, 1.0) and one ending above duration_s yields
\* exactly (duration_s - 1.0, duration_s).
C2_ClampWithinUlp ==
    (Derived /\ LongRecording) =>
        LET c == center(start_s, end_s)
            s == Min(Max(c - Half, 0), duration_s - Second)
        IN  /\ Abs(window[1] - s) <= Ulp(duration_s)
            /\ Abs(window[2] - (s + Second)) <= Ulp(duration_s)
            /\ FSub(c, Half) < 0 => window = <<0, Second>>
            /\ FAdd(c, Half) > duration_s =>
                   window = <<FSub(duration_s, Second), duration_s>>

\* C2 witness: a word near the end of a long recording, whose tentative
\* window was moved back inside the recording
C2_Witness ==
    /\ Derived
    /\ LongRecording
    /\ start_s > 0
    /\ FAdd(center(start_s, end_s), Half) > duration_s
    /\ window[2] = duration_s

\* section 4.3 of the specification: the second adjustment is tried only
\* when the first did not fire
deriveWindow(duration, start, end) ==
    IF duration < Second THEN <<0, duration>>
    ELSE LET c == center(start, end)
         IN  IF FAdd(c, Half) > duration
             THEN <<FSub(duration, Second), duration>>
             ELSE IF FSub(c, Half) < 0
                  THEN <<0, Min(duration, Second)>>
                  ELSE <<FSub(c, Half), FAdd(c, Half)>>

Computed == params /= None
Trimming == FSub(end_s, start_s) >= Second
ClipLength(p) == (trim_end(p) - trim_start(p)) + 2 * pad_amt_s(p)

\* C3 as stated: the trimmed span plus the two paddings is exactly one
\* second; a short occurrence keeps its bounds and is padded by
\* (1.0 - (end_s - start_s)) / 2 on each side, any other gets no padding.
C3_ExactSecond ==
    Computed =>
        /\ ClipLength(params) = Second
        /\ ~Trimming =>
               /\ trim_start(params) = start_s
               /\ trim_end(params) = end_s
               /\ pad_amt_s(params) = FHalf(FSub(Second, FSub(end_s, start_s)))
        /\ Trimming => pad_amt_s(params) = 0

\* C3 as amended: the trimmed span plus the two paddings differs from one
\* second by at most one unit in the last place of max(duration, 1.0); the
\* branches are as stated.
C3_SecondWithinUlp ==
    Computed =>
        /\ Abs(ClipLength(params) - Second) <= Ulp(Max(duration_s, Second))
        /\ ~Trimming =>
               /\ trim_start(params) = start_s
               /\ trim_end(params) = end_s
               /\ pad_amt_s(params) = FHalf(FSub(Second, FSub(end_s, start_s)))
        /\ Trimming => pad_amt_s(params) = 0

\* C3 witness: a short occurrence was padded and the rounding of the
\* padding shows in the length
C3_Witness ==
    /\ Computed
    /\ ~Trimming
    /\ start_s < end_s
    /\ pad_amt_s(params) > 0
    /\ ClipLength(params) /= Second

\* C10 as stated: in the trimming branch neither adjustment fires, the trim
\* bounds are the tentative window and they lie inside [start_s, end_s].
C10_TrimInsideSpan ==
    (Computed /\ Trimming) =>
        /\ ~ShiftFires(duration_s, start_s, end_s)
        /\ ~ClampFires(duration_s, start_s, end_s)
        /\ trim_start(params) = TentativeStart(start_s, end_s)
        /\ trim_end(params) = TentativeEnd(start_s, end_s)
        /\ start_s <= trim_start(params)
        /\ trim_end(params) <= end_s

\* C10 as amended: in the trimming branch neither adjustment fires, the trim
\* bounds are the tentative window, the trim end is at most end_s and the
\* trim start is below start_s by at most one unit in the last place of
\* duration.
C10_TrimInsideSpanWithinUlp ==
    (Computed /\ Trimming) =>
        /\ ~ShiftFires(duration_s, start_s, end_s)
        /\ ~ClampFires(duration_s, start_s, end_s)
        /\ trim_start(params) = TentativeStart(start_s, end_s)
        /\ trim_end(params) = TentativeEnd(start_s, end_s)
        /\ start_s - trim_start(params) <= Ulp(duration_s)
        /\ trim_end(params) <= end_s

\* C10 witness: an occurrence longer than one second was trimmed to a
\* window strictly inside it
C10_Witness ==
    /\ Computed
    /\ Trimming
    /\ start_s < trim_start(params)
    /\ trim_end(params) < end_s
    /\ pad_amt_s(params) = 0

\* ------------------------------------------------------------------------
\* Claims on generate_filemap
\* ------------------------------------------------------------------------
\* two files of the tree with the same base name
HasDuplicate(tr) ==
    \E f \in tr : \E g \in tr : f /= g /\ splitext(f[2]) = splitext(g[2])

\* C8: generate_filemap raises exactly when two files under the tree have
\* the same base name; otherwise it returns one entry per file, keyed by the
\* base name and valued with the path of the file, and the empty mapping
\* for a tree without files.
C8_DuplicateKeyExactly ==
    /\ fm_result = "ValueError" => HasDuplicate(tree)
    /\ fm_result = "returned" =>
           /\ ~HasDuplicate(tree)
           /\ DOMAIN filemap = {splitext(f[2]) : f \in tree}
           /\ Cardinality(DOMAIN filemap) = Cardinality(tree)
           /\ \A f \in tree : filemap[splitext(f[2])] = JoinPath(f[1], f[2])
           /\ tree = {} => filemap = EmptyMap

\* C8 witness: a tree with files in both directories, each with a base name
\* of its own, was mapped
C8_Witness ==
    /\ fm_result = "returned"
    /\ FilesIn(tree, TopDir) /= {}
    /\ FilesIn(tree, SubDir) /= {}
    /\ Cardinality(DOMAIN filemap) = MaxFiles

\* ------------------------------------------------------------------------
\* Claims on extract_shot_from_mp3
\* ------------------------------------------------------------------------
Called(r) == last' /= None /\ last'[1] = r
PreconditionFailures == {"SourceNotFound", "DestinationMissing", "AlreadyExists"}

\* C4: once a call has written the .wav of a recording, every later call
\* for that recording fails with AlreadyExists and leaves the directory as
\* it is; no call writes a .wav that is already there.
C4_OneClipPerRecording ==
    [][\A r \in Recordings :
          /\ (IsClip(wavs[r]) /\ Called(r)) =>
                 (last'[2] = "AlreadyExists" /\ wavs' = wavs)
          /\ (wavs[r] /= None /\ Called(r)) => last'[2] /= "Written"]_vars

\* C4 witness: a second call for a recording whose clip a first call wrote
\* has failed, and the clip of the first call is still there
C4_Witness ==
    /\ last = <<"r1", "AlreadyExists", FALSE>>
    /\ IsClip(wavs["r1"])
    /\ wavs["r1"][1] = "r1"

\* a call that fails a precondition check changes nothing under dest_dir,
\* does not create dest_dir and does not run transformer.build
FailureHasNoEffect ==
    (last' /= None /\ last'[2] \in PreconditionFailures) =>
        (wavs' = wavs /\ dest_isdir' = dest_isdir /\ last'[3] = FALSE)

\* C5 as stated: a call that fails a precondition check has no effect; any
\* call with a missing destination directory fails with DestinationMissing
\* and any call whose destination file exists fails with AlreadyExists.
C5_FailsBeforeTransform ==
    [][/\ FailureHasNoEffect
       /\ \A r \in Recordings :
             /\ (Called(r) /\ ~dest_isdir) => last'[2] = "DestinationMissing"
             /\ (Called(r) /\ wavs[r] /= None) => last'[2] = "AlreadyExists"]_vars

\* C5 as amended: a call that fails a precondition check has no effect; a
\* call for a recording whose mp3 exists fails with DestinationMissing when
\* the destination directory is missing and with AlreadyExists when its
\* destination file exists.
C5_FailsBeforeTransformGivenSource ==
    [][/\ FailureHasNoEffect
       /\ \A r \in Recordings :
             /\ (Called(r) /\ clips[r] /= NoFile /\ ~dest_isdir) =>
                    last'[2] = "DestinationMissing"
             /\ (Called(r) /\ clips[r] /= NoFile /\ wavs[r] /= None) =>
                    last'[2] = "AlreadyExists"]_vars

\* C5 witness: a call onto a file that was under the destination directory
\* before any call has failed and the file is as it was
C5_Witness ==
    /\ last = <<"r1", "AlreadyExists", FALSE>>
    /\ wavs["r1"] = Old
    /\ wavs["r2"] = None

\* ------------------------------------------------------------------------
\* Claims on generate_wordtimings
\* ------------------------------------------------------------------------
\* the transcript rows scanned so far, the header left out
DataRows == IF rows = <<>> THEN <<>> ELSE Tail(rows)
RowRecording(row) == splitext(row[1])

\* how many times the word stands in the transcript of the row
TokenCount(row, w) ==
    LET tokens == split(row[3])
    IN  Cardinality({j \in 1..Len(tokens) : tokens[j] = w})

\* how many times the scan met the word in a row of the recording
RECURSIVE Encounters(_, _, _)
Encounters(rs, r, w) ==
    IF rs = <<>> THEN 0
    ELSE (IF RowRecording(Head(rs)) = r THEN TokenCount(Head(rs), w) ELSE 0)
         + Encounters(Tail(rs), r, w)

\* the intervals of the alignment file of the recording labelled w
Labelled(r, w) ==
    LET tier == TextGridFile(mp3_to_textgrid[r])
    IN  SelectSeq(tier, LAMBDA interval : interval[1] = w)

\* the occurrences of w in the recording, one per labelled interval
OccurrencesOf(r, w) ==
    LET ivs == Labelled(r, w)
    IN  [k \in 1..Len(ivs) |-> <<r, ivs[k][2], ivs[k][3]>>]

Entries(r, w) == {k \in 1..Len(notfound) : notfound[k] = <<r, w>>}

RECURSIVE SumOver(_, _)
SumOver(S, w) ==
    IF S = {} THEN 0
    ELSE LET r == CHOOSE x \in S : TRUE
         IN  Encounters(DataRows, r, w) * Len(Labelled(r, w))
             + SumOver(S \ {r}, w)

\* C6: every time the scan meets a target word in a row of a recording that
\* is not in the index, it appends one (recording, word) entry to notfound
\* and nothing else does; a miss does not stop the scan: the occurrences of
\* every row of an indexed recording are recorded, whatever came before;
\* a target word that stands in no row ends with no occurrence and no entry.
C6_MissesLoggedScanContinues ==
    /\ tm_result \in {"scanning", "returned"}
    /\ DOMAIN timings = words_to_search_for
    /\ \A r \in RecordingKeys : \A w \in Words :
           Cardinality(Entries(r, w)) =
               IF w \in words_to_search_for /\ r \notin DOMAIN mp3_to_textgrid
               THEN Encounters(DataRows, r, w) ELSE 0
    /\ Len(notfound) =
           Cardinality(UNION {Entries(r, w) : r \in RecordingKeys, w \in Words})
    /\ \A w \in words_to_search_for :
           /\ Len(timings[w]) = SumOver(DOMAIN mp3_to_textgrid, w)
           /\ (\A r \in RecordingKeys : Encounters(DataRows, r, w) = 0) =>
                  timings[w] = <<>>

\* C6 witness: the scan has returned after a row of a recording that is not
\* in the index, which it logged, and a later row of an indexed recording,
\* whose occurrences it recorded
C6_Witness ==
    /\ tm_result = "returned"
    /\ Len(rows) = 3
    /\ RowRecording(rows[2]) \notin DOMAIN mp3_to_textgrid
    /\ RowRecording(rows[3]) \in DOMAIN mp3_to_textgrid
    /\ notfound = << <<RowRecording(rows[2]), WordX>> >>
    /\ timings[WordX] = OccurrencesOf(RowRecording(rows[3]), WordX)
    /\ timings[WordX] /= <<>>

\* the rows of the recording among the rows scanned
RowsOf(r) == {i \in 1..Len(DataRows) : RowRecording(DataRows[i]) = r}

\* C7: for every target word w and every indexed recording r with a single
\* transcript row, which contains w any number of times, timings[w] holds
\* for r exactly one tuple (r, start, end) per interval of the alignment
\* file of r labelled w, in the order of the intervals, and no other.
C7_OneOccurrencePerInterval ==
    \A w \in words_to_search_for : \A r \in DOMAIN mp3_to_textgrid :
        (Cardinality(RowsOf(r)) = 1 /\ Encounters(DataRows, r, w) >= 1) =>
            SelectSeq(timings[w], LAMBDA o : o[1] = r) = OccurrencesOf(r, w)

====
